---- MODULE Spec2Model ----
(***************************************************************************)
(* A model of wpilog_processor.py: the WPILog binary decoder               *)
(* (read_string, parse_value, parse_wpilog), the fixed-period resampler    *)
(* (generate_csv) and the per-file driver (process_file).                  *)
(*                                                                         *)
(* Representation.                                                         *)
(*  - bytes objects are sequences of naturals in 0..255; Python's 0-based  *)
(*    offsets are kept, so data[k] of the source is data[k + 1] here.      *)
(*  - str objects are sequences of code points.                            *)
(*  - a Python float (IEEE-754 binary64) that is non-negative is kept      *)
(*    exactly as a 128-bit fixed-point number with 80 fraction bits, held  *)
(*    as 16 base-256 limbs, least significant first.  Every float the      *)
(*    program computes from the inputs enumerated below is a multiple of   *)
(*    2^-80 below 2^48, so the representation is exact, and every          *)
(*    arithmetic operation rounds its exact result to 53 significant bits, *)
(*    ties to even, as the hardware does.                                  *)
(*  - a raised exception is a record [ok |-> FALSE, exc |-> <class>].      *)
(*  - file output (os.makedirs, csv.writer) is taken to succeed.           *)
(***************************************************************************)
EXTENDS Integers, Sequences, FiniteSets, TLC

(***************************************************************************)
(* bytes and str helpers                                                   *)
(***************************************************************************)

\* data[a:b] of Python for 0 <= a <= b: the slice is clipped to the buffer.
Slice(data, a, b) ==
    LET hi == IF b < Len(data) THEN b ELSE Len(data)
    IN  IF a >= hi THEN <<>> ELSE [i \in 1..(hi - a) |-> data[a + i]]

\* b'WPILOG'
WPILOG == <<87, 80, 73, 76, 79, 71>>

\* the str literals the source compares against
S_entry == <<101, 110, 116, 114, 121>>
S_type == <<116, 121, 112, 101>>
S_boolean == <<98, 111, 111, 108, 101, 97, 110>>
S_int == <<105, 110, 116>>
S_float == <<102, 108, 111, 97, 116>>
S_double == <<100, 111, 117, 98, 108, 101>>
S_string == <<115, 116, 114, 105, 110, 103>>
\* "[]"
S_brackets == <<91, 93>>

RECURSIVE ValidUtf8(_)
\* bytes.decode('utf-8') succeeds exactly on well-formed UTF-8.
ValidUtf8(b) ==
    IF b = <<>> THEN TRUE
    ELSE LET c == b[1]
             Cont(k) == k <= Len(b) /\ b[k] >= 128 /\ b[k] <= 191
         IN  IF c <= 127 THEN ValidUtf8(Tail(b))
             ELSE IF c >= 194 /\ c <= 223
                  THEN Cont(2) /\ ValidUtf8(SubSeq(b, 3, Len(b)))
             ELSE IF c >= 224 /\ c <= 239
                  THEN /\ Cont(2) /\ Cont(3)
                       /\ (c = 224 => b[2] >= 160)
                       /\ (c = 237 => b[2] <= 159)
                       /\ ValidUtf8(SubSeq(b, 4, Len(b)))
             ELSE IF c >= 240 /\ c <= 244
                  THEN /\ Cont(2) /\ Cont(3) /\ Cont(4)
                       /\ (c = 240 => b[2] >= 144)
                       /\ (c = 244 => b[2] <= 143)
                       /\ ValidUtf8(SubSeq(b, 5, Len(b)))
             ELSE FALSE

RECURSIVE Utf8Decode(_)
\* The code points of a well-formed UTF-8 byte string.
Utf8Decode(b) ==
    IF b = <<>> THEN <<>>
    ELSE LET c == b[1]
         IN  IF c <= 127 THEN <<c>> \o Utf8Decode(Tail(b))
             ELSE IF c <= 223
                  THEN <<(c - 192) * 64 + (b[2] - 128)>>
                       \o Utf8Decode(SubSeq(b, 3, Len(b)))
             ELSE IF c <= 239
                  THEN <<(c - 224) * 4096 + (b[2] - 128) * 64 + (b[3] - 128)>>
                       \o Utf8Decode(SubSeq(b, 4, Len(b)))
             ELSE <<(c - 240) * 262144 + (b[2] - 128) * 4096
                     + (b[3] - 128) * 64 + (b[4] - 128)>>
                  \o Utf8Decode(SubSeq(b, 5, Len(b)))

\* struct.unpack('<H', s)[0]: needs exactly two bytes.
UnpackH(s) ==
    IF Len(s) = 2 THEN [ok |-> TRUE, value |-> s[1] + 256 * s[2]]
    ELSE [ok |-> FALSE, exc |-> "struct.error"]

\* struct.unpack('<I', s)[0]: needs exactly four bytes.
UnpackI(s) ==
    IF Len(s) = 4
    THEN [ok |-> TRUE,
          value |-> s[1] + 256 * s[2] + 65536 * s[3] + 16777216 * s[4]]
    ELSE [ok |-> FALSE, exc |-> "struct.error"]

(***************************************************************************)
(* binary64 arithmetic on non-negative values                              *)
(***************************************************************************)

\* number of limbs of the fraction part of a float, and of a float
FracLimbs == 2 * 5
NLimbs == FracLimbs + 6

FZero == [i \in 1..NLimbs |-> 0]

Pow2(k) == 2 ^ k

\* bit k (0 = least significant) of a limb vector
Bit(x, k) == (x[(k \div 8) + 1] \div Pow2(k % 8)) % 2

\* x with the bits below position cut cleared
ClearLow(x, cut) ==
    [i \in 1..Len(x) |->
        IF 8 * i <= cut THEN 0
        ELSE IF 8 * (i - 1) >= cut THEN x[i]
        ELSE (x[i] \div Pow2(cut - 8 * (i - 1))) * Pow2(cut - 8 * (i - 1))]

\* position of the highest set bit of a non-zero limb vector
TopBit(x) ==
    LET top == CHOOSE i \in 1..Len(x) :
                   x[i] # 0 /\ \A j \in (i + 1)..Len(x) : x[j] = 0
        lg  == CHOOSE k \in 0..7 : Pow2(k) <= x[top] /\ x[top] < Pow2(k + 1)
    IN  8 * (top - 1) + lg

RECURSIVE AddFrom(_, _, _, _)
\* limbs i.. of a + b given the carry into limb i
AddFrom(a, b, i, carry) ==
    IF i > Len(a) THEN <<>>
    ELSE LET s == a[i] + b[i] + carry
         IN  <<s % 256>> \o AddFrom(a, b, i + 1, s \div 256)

BigAdd(a, b) == AddFrom(a, b, 1, 0)

RECURSIVE SubFrom(_, _, _, _)
\* limbs i.. of a - b (a >= b) given the borrow into limb i
SubFrom(a, b, i, borrow) ==
    IF i > Len(a) THEN <<>>
    ELSE LET s == a[i] - b[i] - borrow
         IN  IF s < 0 THEN <<s + 256>> \o SubFrom(a, b, i + 1, 1)
             ELSE <<s>> \o SubFrom(a, b, i + 1, 0)

BigSub(a, b) == SubFrom(a, b, 1, 0)

\* the limb vector of 2^k
BigPow2(k) == [i \in 1..NLimbs |-> IF i = (k \div 8) + 1 THEN Pow2(k % 8) ELSE 0]

\* a < b on limb vectors
BigLess(a, b) ==
    \E i \in 1..Len(a) :
        a[i] < b[i] /\ \A j \in (i + 1)..Len(a) : a[j] = b[j]

\* Round the exact value x (+ a non-zero amount below its last bit when
\* sticky) to 53 significant bits, ties to even.
Round53(x, sticky) ==
    IF x = FZero THEN x
    ELSE LET h == TopBit(x)
         IN  IF h <= 52 THEN x
             ELSE LET cut   == h - 52
                      kept  == ClearLow(x, cut)
                      guard == Bit(x, cut - 1) = 1
                      rest  == sticky \/ ClearLow(x, cut - 1) # x
                      odd   == Bit(x, cut) = 1
                  IN  IF guard /\ (rest \/ odd)
                      THEN BigAdd(kept, BigPow2(cut))
                      ELSE kept

\* a + b, a - b (a >= b), a <= b of two floats
FAdd(a, b) == Round53(BigAdd(a, b), FALSE)
FSub(a, b) == Round53(BigSub(a, b), FALSE)
FLe(a, b) == ~BigLess(b, a)

RECURSIVE DivFrom(_, _, _, _)
\* Long division of the limbs i..1 of n (most significant first) by the
\* small divisor d, with the remainder rem carried in: <<quotient limbs,
\* least significant first, final remainder>>.
DivFrom(n, d, i, rem) ==
    IF i = 0 THEN <<<<>>, rem>>
    ELSE LET cur  == rem * 256 + n[i]
             rest == DivFrom(n, d, i - 1, cur % d)
         IN  <<Append(rest[1], cur \div d), rest[2]>>

\* The float nearest to n / d for a natural n given as little-endian bytes
\* and a divisor d below 2^22: true division of Python, correctly rounded.
FDivNat(nbytes, d) ==
    LET shifted == [i \in 1..FracLimbs |-> 0] \o nbytes
        qr      == DivFrom(shifted, d, Len(shifted), 0)
        q       == [i \in 1..NLimbs |->
                       IF i <= Len(qr[1]) THEN qr[1][i] ELSE 0]
    IN  Round53(q, qr[2] # 0)

(***************************************************************************)
(* read_string, parse_value                                                *)
(***************************************************************************)

Raise(e) == [ok |-> FALSE, exc |-> e]

\* read_string(data, offset) -> (str, offset): the slice of the payload is
\* clipped to the buffer, the offset advances by the declared length.
read_string(data, offset) ==
    LET length == UnpackH(Slice(data, offset, offset + 2))
    IN  IF ~length.ok THEN Raise(length.exc)
        ELSE LET string_data ==
                     Slice(data, offset + 2, offset + 2 + length.value)
             IN  IF ~ValidUtf8(string_data) THEN Raise("UnicodeDecodeError")
                 ELSE [ok |-> TRUE,
                       value |-> Utf8Decode(string_data),
                       offset |-> offset + 2 + length.value]

\* A decoded value: its Python type, and its items (one for a scalar), each
\* item identified by its encoding: <<0>> or <<1>> for a bool, the raw
\* little-endian bytes for an int or a float, the code points for a str.
Scalar(py, item) == [py |-> py, list |-> FALSE, items |-> <<item>>]

\* struct.unpack(fmt, data[offset:offset + width]) of one fixed-width item
UnpackFixed(data, offset, width, isBool) ==
    LET s == Slice(data, offset, offset + width)
    IN  IF Len(s) # width THEN Raise("struct.error")
        ELSE [ok |-> TRUE,
              item |-> IF isBool THEN (IF s[1] # 0 THEN <<1>> ELSE <<0>>)
                       ELSE s,
              offset |-> offset + width]

RECURSIVE FixedItems(_, _, _, _, _)
\* for _ in range(n): unpack one item, append it, advance
FixedItems(data, offset, n, width, isBool) ==
    IF n = 0 THEN [ok |-> TRUE, items |-> <<>>, offset |-> offset]
    ELSE LET v == UnpackFixed(data, offset, width, isBool)
         IN  IF ~v.ok THEN v
             ELSE LET r == FixedItems(data, v.offset, n - 1, width, isBool)
                  IN  IF ~r.ok THEN r
                      ELSE [ok |-> TRUE, items |-> <<v.item>> \o r.items,
                            offset |-> r.offset]

RECURSIVE StringItems(_, _, _)
\* for _ in range(n): s, offset = read_string(data, offset); append s
StringItems(data, offset, n) ==
    IF n = 0 THEN [ok |-> TRUE, items |-> <<>>, offset |-> offset]
    ELSE LET v == read_string(data, offset)
         IN  IF ~v.ok THEN v
             ELSE LET r == StringItems(data, v.offset, n - 1)
                  IN  IF ~r.ok THEN r
                      ELSE [ok |-> TRUE, items |-> <<v.value>> \o r.items,
                            offset |-> r.offset]

\* value = [] filled by the loop whose outcome is r
ListValue(r) ==
    IF ~r.ok THEN r
    ELSE [ok |-> TRUE,
          value |-> [py |-> "list", list |-> TRUE, items |-> r.items],
          offset |-> r.offset]

\* the array branches of parse_value: a '<I' count, then the items
ArrayValue(data, offset, width, isBool, isString) ==
    LET length == UnpackI(Slice(data, offset, offset + 4))
    IN  IF ~length.ok THEN Raise(length.exc)
        ELSE IF isString
        THEN ListValue(StringItems(data, offset + 4, length.value))
        ELSE ListValue(FixedItems(data, offset + 4, length.value, width,
                                  isBool))

\* a scalar value of Python type py from the outcome v of reading its item
ScalarValue(py, v) ==
    IF ~v.ok THEN v
    ELSE [ok |-> TRUE, value |-> Scalar(py, v.item), offset |-> v.offset]

\* the scalar branches of parse_value for the fixed-width types
FixedValue(data, offset, py, width, isBool) ==
    ScalarValue(py, UnpackFixed(data, offset, width, isBool))

\* the string branch of parse_value
StringValue(r) ==
    IF ~r.ok THEN r
    ELSE [ok |-> TRUE, value |-> Scalar("str", r.value), offset |-> r.offset]

\* parse_value(data, offset, entry_type) -> (value, offset)
parse_value(data, offset, entry_type) ==
    IF entry_type = S_boolean THEN FixedValue(data, offset, "bool", 1, TRUE)
    ELSE IF entry_type = S_int THEN FixedValue(data, offset, "int", 8, FALSE)
    ELSE IF entry_type = S_float
         THEN FixedValue(data, offset, "float", 4, FALSE)
    ELSE IF entry_type = S_double
         THEN FixedValue(data, offset, "float", 8, FALSE)
    ELSE IF entry_type = S_string
         THEN StringValue(read_string(data, offset))
    ELSE IF entry_type = S_boolean \o S_brackets
         THEN ArrayValue(data, offset, 1, TRUE, FALSE)
    ELSE IF entry_type = S_int \o S_brackets
         THEN ArrayValue(data, offset, 8, FALSE, FALSE)
    ELSE IF entry_type = S_float \o S_brackets
         THEN ArrayValue(data, offset, 4, FALSE, FALSE)
    ELSE IF entry_type = S_double \o S_brackets
         THEN ArrayValue(data, offset, 8, FALSE, FALSE)
    ELSE IF entry_type = S_string \o S_brackets
         THEN ArrayValue(data, offset, 0, FALSE, TRUE)
    ELSE Raise("ValueError")

(***************************************************************************)
(* str.split(';', 1) and int(str)                                          *)
(***************************************************************************)

\* index of the first ';' of a str, 0 when it has none
FirstSemi(s) ==
    IF \E i \in 1..Len(s) : s[i] = 59
    THEN CHOOSE i \in 1..Len(s) : s[i] = 59 /\ \A j \in 1..(i - 1) : s[j] # 59
    ELSE 0

\* the white space int() strips (ASCII)
IsSpace(c) == c \in {9, 10, 11, 12, 13, 28, 29, 30, 31, 32}

RECURSIVE Strip(_)
Strip(s) ==
    IF s = <<>> THEN s
    ELSE IF IsSpace(s[1]) THEN Strip(Tail(s))
    ELSE IF IsSpace(s[Len(s)]) THEN Strip(SubSeq(s, 1, Len(s) - 1))
    ELSE s

IsDigit(c) == c >= 48 /\ c <= 57

RECURSIVE DigitsValue(_, _)
\* the value of a digit string with '_' separators, given the value so far
DigitsValue(s, acc) ==
    IF s = <<>> THEN acc
    ELSE IF s[1] = 95 THEN DigitsValue(Tail(s), acc)
    ELSE DigitsValue(Tail(s), 10 * acc + (s[1] - 48))

\* int(s) for a str of ASCII characters: optional white space around, an
\* optional sign, decimal digits with single '_' between digits.
PyInt(s) ==
    LET t    == Strip(s)
        sign == IF t # <<>> /\ t[1] \in {43, 45} THEN 1 ELSE 0
        body == SubSeq(t, sign + 1, Len(t))
        good == /\ body # <<>>
                /\ IsDigit(body[1]) /\ IsDigit(body[Len(body)])
                /\ \A i \in 1..Len(body) : IsDigit(body[i]) \/ body[i] = 95
                /\ \A i \in 1..(Len(body) - 1) :
                       ~(body[i] = 95 /\ body[i + 1] = 95)
    IN  IF ~good THEN Raise("ValueError")
        ELSE [ok |-> TRUE,
              value |-> IF sign = 1 /\ t[1] = 45 THEN 0 - DigitsValue(body, 0)
                        ELSE DigitsValue(body, 0)]

\* entry_id, rest = s.split(';', 1) followed by int(entry_id)
SplitId(s) ==
    LET k == FirstSemi(s)
    IN  IF k = 0 THEN Raise("ValueError")
        ELSE LET id == PyInt(SubSeq(s, 1, k - 1))
             IN  IF ~id.ok THEN id
                 ELSE [ok |-> TRUE, id |-> id.value,
                       rest |-> SubSeq(s, k + 1, Len(s))]

\* DictSet with a slip: the dict is rebuilt with the new key alone
DictSet_Fresh(d, k, v) == [i \in {k} |-> v]

\* d[k] = v of a dict held as a function
DictSet(d, k, v) ==
    [i \in DOMAIN d \cup {k} |-> IF i = k THEN v ELSE d[i]]

(***************************************************************************)
(* parse_wpilog: one iteration of the record loop                          *)
(***************************************************************************)

\* a line printed on standard output
Line(text, arg, exc) == [text |-> text, arg |-> arg, exc |-> exc]

\* The effect of one iteration: how it ends ("next": the loop goes on,
\* "break": a break statement, "except": the except clause, which breaks
\* too), the offset it leaves, the metadata dicts, the start_time it sets
\* (<<>> when it sets none), the entries it appends, the lines it prints.
Effect(how, off, names, types, start, appended, printed) ==
    [how |-> how, offset |-> off, names |-> names, types |-> types,
     start |-> start, appended |-> appended, printed |-> printed]

\* except Exception as e: print(...); break
Except(off, names, types, exc) ==
    Effect("except", off, names, types, <<>>, <<>>,
           <<Line("Error parsing file at offset", off, exc)>>)

\* timestamp = struct.unpack('<q', ...)[0] / 1000000 for a non-negative
\* timestamp (the sign bit of the eight bytes clear)
Seconds(q) == FDivNat(q, 1000000)

\* ControlEntry with a slip: Finish sets the start time as Start does
ControlEntry_FinishSets(data, off, names, types, timestamp) ==
    IF off >= Len(data)
    THEN [how |-> "except", offset |-> off, names |-> names, types |-> types,
          start |-> <<>>, appended |-> <<>>,
          printed |-> <<[text |-> "Error parsing file at offset",
                         arg |-> off, exc |-> "IndexError"]>>]
    ELSE [how |-> "next", offset |-> off + 1, names |-> names,
          types |-> types,
          start |-> IF data[off + 1] \in {0, 1} THEN <<timestamp>> ELSE <<>>,
          appended |-> <<>>,
          printed |-> IF data[off + 1] \in {0, 1} THEN <<>>
                      ELSE <<[text |-> "Unknown control type",
                              arg |-> data[off + 1], exc |-> ""]>>]

\* entry_type == 0: the control entry, read at offset off
ControlEntry(data, off, names, types, timestamp) ==
    IF off >= Len(data) THEN Except(off, names, types, "IndexError")
    ELSE LET control_type == data[off + 1]
         IN  IF control_type = 0
             THEN Effect("next", off + 1, names, types, <<timestamp>>,
                         <<>>, <<>>)
             ELSE IF control_type = 1
             THEN Effect("next", off + 1, names, types, <<>>, <<>>, <<>>)
             ELSE Effect("next", off + 1, names, types, <<>>, <<>>,
                         <<Line("Unknown control type", control_type, "")>>)

\* entry_type == 1: the metadata entry, read at offset off
MetadataEntry(data, off, names, types) ==
    LET entry_name == read_string(data, off)
    IN  IF ~entry_name.ok THEN Except(off, names, types, entry_name.exc)
        ELSE
        LET metadata_entry == read_string(data, entry_name.offset)
        IN  IF ~metadata_entry.ok
            THEN Except(entry_name.offset, names, types, metadata_entry.exc)
            ELSE
            LET off2 == metadata_entry.offset
                kv   == SplitId(metadata_entry.value)
            IN  IF entry_name.value = S_entry
                THEN IF ~kv.ok THEN Except(off2, names, types, kv.exc)
                     ELSE Effect("next", off2,
                                 DictSet(names, kv.id, kv.rest), types,
                                 <<>>, <<>>, <<>>)
                ELSE IF entry_name.value = S_type
                THEN IF ~kv.ok THEN Except(off2, names, types, kv.exc)
                     ELSE Effect("next", off2, names,
                                 DictSet(types, kv.id, kv.rest),
                                 <<>>, <<>>, <<>>)
                ELSE Effect("next", off2, names, types, <<>>, <<>>, <<>>)

\* entries.append(Entry(timestamp, entry_name, value))
Entry(timestamp, name, value) ==
    [timestamp |-> timestamp, name |-> name, value |-> value]

\* Decoded with a slip: the event is not appended
Decoded_NoAppend(off, names, types, timestamp, entry_name, v) ==
    IF ~v.ok
    THEN [how |-> "except", offset |-> off, names |-> names, types |-> types,
          start |-> <<>>, appended |-> <<>>,
          printed |-> <<[text |-> "Error parsing file at offset",
                         arg |-> off, exc |-> v.exc]>>]
    ELSE [how |-> "next", offset |-> v.offset, names |-> names,
          types |-> types, start |-> <<>>, appended |-> <<>>,
          printed |-> <<>>]

\* the data entry of a known id once parse_value has ended as v
Decoded(off, names, types, timestamp, entry_name, v) ==
    IF ~v.ok THEN Except(off, names, types, v.exc)
    ELSE Effect("next", v.offset, names, types, <<>>,
                <<Entry(timestamp, entry_name, v.value)>>, <<>>)

\* entry_type == 2: the data entry, read at offset off
DataEntry(data, off, names, types, timestamp) ==
    LET entry_id == UnpackH(Slice(data, off, off + 2))
    IN  IF ~entry_id.ok THEN Except(off, names, types, entry_id.exc)
        ELSE IF entry_id.value \in DOMAIN names
                /\ entry_id.value \in DOMAIN types
        THEN Decoded(off + 2, names, types, timestamp,
                     names[entry_id.value],
                     parse_value(data, off + 2, types[entry_id.value]))
        ELSE Effect("break", off + 2, names, types, <<>>, <<>>,
                    <<Line("Unknown entry ID", entry_id.value, "")>>)

\* UnknownEntry with a slip: the record is skipped and the loop goes on
UnknownEntry_Skip(off, names, types, entry_type) ==
    [how |-> "next", offset |-> off, names |-> names, types |-> types,
     start |-> <<>>, appended |-> <<>>,
     printed |-> <<[text |-> "Unknown entry type", arg |-> entry_type,
                    exc |-> ""]>>]

\* any other entry_type
UnknownEntry(off, names, types, entry_type) ==
    Effect("break", off, names, types, <<>>, <<>>,
           <<Line("Unknown entry type", entry_type, "")>>)

\* the record timestamp, in seconds, of the record at offset
Timestamp(data, offset) == Seconds(Slice(data, offset + 1, offset + 9))

\* The body of the while loop, entered with offset < len(data): the entry
\* type and the timestamp are read, then the branch of the entry type,
\* whose effect is entry, is taken.
Iteration(data, offset, names, types, entry) ==
    IF Len(Slice(data, offset + 1, offset + 9)) # 8
    THEN Except(offset + 1, names, types, "struct.error")
    ELSE entry

(***************************************************************************)
(* generate_csv                                                            *)
(***************************************************************************)

RECURSIVE Group_Prepend(_, _, _)
\* Group with a slip: each pair is put at the front of its series
Group_Prepend(entries, i, d) ==
    IF i > Len(entries) THEN d
    ELSE LET e    == entries[i]
             pair == <<e.timestamp, e.value>>
         IN  Group_Prepend(entries, i + 1,
                 [n \in DOMAIN d \cup {e.name} |->
                     IF n # e.name THEN d[n]
                     ELSE IF n \in DOMAIN d THEN <<pair>> \o d[n]
                     ELSE <<pair>>])

RECURSIVE Group(_, _, _)
\* the grouping loop: entries_by_name after the entries i.. are added to d
Group(entries, i, d) ==
    IF i > Len(entries) THEN d
    ELSE LET e    == entries[i]
             pair == <<e.timestamp, e.value>>
         IN  Group(entries, i + 1,
                   IF e.name \in DOMAIN d
                   THEN DictSet(d, e.name, Append(d[e.name], pair))
                   ELSE DictSet(d, e.name, <<pair>>))

entries_by_name(entries) == Group(entries, 1, <<>>)

\* a < b for str: code point by code point, a proper prefix first
StrLess(a, b) ==
    \/ Len(a) < Len(b) /\ SubSeq(b, 1, Len(a)) = a
    \/ \E i \in 1..Len(a) :
           /\ i <= Len(b)
           /\ a[i] < b[i]
           /\ \A j \in 1..(i - 1) : a[j] = b[j]

RECURSIVE Sorted(_)
\* sorted(S) for a set of str
Sorted(S) ==
    IF S = {} THEN <<>>
    ELSE LET m == CHOOSE x \in S : \A y \in S \ {x} : StrLess(x, y)
         IN  <<m>> \o Sorted(S \ {m})

RECURSIVE MinTime(_, _, _)
\* min(entry.timestamp for entry in entries), from entry i with best so far
MinTime(entries, i, best) ==
    IF i > Len(entries) THEN best
    ELSE MinTime(entries, i + 1,
                 IF BigLess(entries[i].timestamp, best)
                 THEN entries[i].timestamp ELSE best)

RECURSIVE MaxTime(_, _, _)
MaxTime(entries, i, best) ==
    IF i > Len(entries) THEN best
    ELSE MaxTime(entries, i + 1,
                 IF BigLess(best, entries[i].timestamp)
                 THEN entries[i].timestamp ELSE best)

RECURSIVE Timestamps(_, _, _)
\* while current_time <= end_time: append current_time; add period_s
Timestamps(current_time, end_time, period_s) ==
    IF FLe(current_time, end_time)
    THEN <<current_time>>
         \o Timestamps(FAdd(current_time, period_s), end_time, period_s)
    ELSE <<>>

RECURSIVE ScanBefore(_, _, _, _)
\* for t, v in entry_data: if t <= timestamp: before = (t, v) else: break
ScanBefore(entry_data, i, timestamp, before) ==
    IF i > Len(entry_data) THEN before
    ELSE IF FLe(entry_data[i][1], timestamp)
         THEN ScanBefore(entry_data, i + 1, timestamp, <<entry_data[i]>>)
         ELSE before

RECURSIVE ScanAfter(_, _, _, _)
\* for t, v in reversed(entry_data): if t >= timestamp: after = (t, v)
\* else: break
ScanAfter(entry_data, i, timestamp, after) ==
    IF i = 0 THEN after
    ELSE IF FLe(timestamp, entry_data[i][1])
         THEN ScanAfter(entry_data, i - 1, timestamp, <<entry_data[i]>>)
         ELSE after

\* str(value) of a list
Str(value) == [py |-> "str", list |-> FALSE, items |-> value.items]

\* One cell of a row: <<>> for the empty string, else <<value>>.
Cell(entry_data, timestamp) ==
    LET before == ScanBefore(entry_data, 1, timestamp, <<>>)
        after  == ScanAfter(entry_data, Len(entry_data), timestamp, <<>>)
        value  == IF before = <<>> /\ after = <<>> THEN <<>>
                  ELSE IF before = <<>> THEN <<after[1][2]>>
                  ELSE IF after = <<>> THEN <<before[1][2]>>
                  ELSE IF FLe(FSub(timestamp, before[1][1]),
                              FSub(after[1][1], timestamp))
                       THEN <<before[1][2]>>
                  ELSE <<after[1][2]>>
    IN  IF value # <<>> /\ value[1].list THEN <<Str(value[1])>> ELSE value

\* row = [timestamp] followed by one cell per sorted name
Row(by_name, sorted_names, timestamp) ==
    <<timestamp>>
    \o [k \in 1..Len(sorted_names) |-> Cell(by_name[sorted_names[k]], timestamp)]

\* period_s = period_ms / 1000.0 for a whole number of milliseconds
PeriodS(period_ms) == FDivNat(<<period_ms % 256, period_ms \div 256>>, 1000)

\* generate_csv(entries, output_file, period_ms) for non-empty entries:
\* the file written (header, rows) and the dict returned
generate_csv(entries, period_ms) ==
    LET by_name      == entries_by_name(entries)
        start        == MinTime(entries, 2, entries[1].timestamp)
        end          == MaxTime(entries, 2, entries[1].timestamp)
        timestamps   == Timestamps(start, end, PeriodS(period_ms))
        sorted_names == Sorted(DOMAIN by_name)
        csv_data     == [k \in 1..Len(timestamps) |->
                            Row(by_name, sorted_names, timestamps[k])]
    IN  [header |-> sorted_names,
         csv_data |-> csv_data,
         stats |-> [total_entries |-> Len(entries),
                    unique_types |-> Len(sorted_names),
                    start_time |-> start,
                    end_time |-> end,
                    duration |-> FSub(end, start),
                    rows |-> Len(csv_data)]]

(***************************************************************************)
(* The inputs: the buffers and the periods process_file is run on          *)
(***************************************************************************)

\* the most records a buffer holds after its preamble
MaxRecords == 2

U16(n) == <<n % 256, n \div 256>>

\* a timestamp in microseconds as '<q'
I64(us) ==
    <<us % 256, (us \div 256) % 256, (us \div 65536) % 256,
      us \div 16777216, 0, 0, 0, 0>>

EncString(s) == U16(Len(s)) \o s

ControlRecord(us, control_type) == <<0>> \o I64(us) \o <<control_type>>

MetadataRecord(us, key, payload) ==
    <<1>> \o I64(us) \o EncString(key) \o EncString(payload)

DataRecord(us, id, payload) == <<2>> \o I64(us) \o U16(id) \o payload

\* "0;a", "0;b", "1;b", "0;double", "1;string", "0;foo", "q", "z;a",
\* "2;c", "2;boolean[]", "3;d", "3;string[]"
P_0a == <<48, 59, 97>>
P_0b == <<48, 59, 98>>
P_1b == <<49, 59, 98>>
P_0double == <<48, 59>> \o S_double
P_1string == <<49, 59>> \o S_string
P_0foo == <<48, 59, 102, 111, 111>>
P_q == <<113>>
P_za == <<122, 59, 97>>
P_2c == <<50, 59, 99>>
P_2booleans == <<50, 59>> \o S_boolean \o S_brackets
P_3d == <<51, 59, 100>>
P_3strings == <<51, 59>> \o S_string \o S_brackets

\* a double payload whose first byte tells the records apart
F64(k) == <<k, 0, 0, 0, 0, 0, 248, 63>>

\* the metadata of channel 0 ("a", double), and of channel 1 ("b", string)
Channel0 ==
    MetadataRecord(0, S_entry, P_0a) \o MetadataRecord(0, S_type, P_0double)
Channel1 ==
    MetadataRecord(0, S_type, P_1string) \o MetadataRecord(0, S_entry, P_1b)

\* the records a buffer is made of after its preamble
Alphabet ==
    { ControlRecord(0, 0), ControlRecord(100000, 0), ControlRecord(0, 1),
      ControlRecord(0, 2),
      MetadataRecord(0, S_entry, P_0b),
      MetadataRecord(0, S_type, P_0foo),
      MetadataRecord(0, P_q, P_q),
      MetadataRecord(0, S_entry, P_q),
      DataRecord(0, 0, F64(1)),
      DataRecord(200000, 0, F64(2)),
      DataRecord(300000, 0, F64(3)),
      DataRecord(100000, 1, EncString(<<104, 105>>)),
      <<3>> \o I64(0) }

\* the preambles: nothing, the metadata of channel 0, or of channels 0, 1
Preambles == { <<>>, Channel0, Channel0 \o Channel1 }

\* the number of bytes missing at the end of a truncated buffer
Cuts == {0, 1}

\* the period argument, in milliseconds
Periods == {20, 100}

RECURSIVE Concat(_)
Concat(ss) == IF ss = <<>> THEN <<>> ELSE ss[1] \o Concat(Tail(ss))

\* buffers that do not start with the magic string
BadHeaders ==
    { <<>>, SubSeq(WPILOG, 1, 5), <<87, 80, 73, 76, 79, 103>>,
      <<119>> \o Tail(WPILOG) \o ControlRecord(0, 0) }

\* further buffers: a non-numeric id, a key that is not UTF-8, a two-byte
\* character, array channels (whole and truncated), deeper truncations
Others ==
    { WPILOG \o Channel0 \o MetadataRecord(0, S_type, P_za)
             \o DataRecord(0, 0, F64(1)),
      WPILOG \o MetadataRecord(0, <<255>>, P_q) \o ControlRecord(0, 0),
      WPILOG \o MetadataRecord(0, S_entry, <<48, 59, 195, 169>>)
             \o MetadataRecord(0, S_type, P_0double)
             \o DataRecord(0, 0, F64(1)),
      WPILOG \o MetadataRecord(0, S_entry, P_2c)
             \o MetadataRecord(0, S_type, P_2booleans)
             \o DataRecord(0, 2, <<3, 0, 0, 0, 1, 0, 2>>)
             \o DataRecord(100000, 2, <<0, 0, 0, 0>>)
             \o DataRecord(200000, 2, <<2, 0, 0, 0, 1>>),
      WPILOG \o MetadataRecord(0, S_entry, P_3d)
             \o MetadataRecord(0, S_type, P_3strings)
             \o DataRecord(0, 3, <<2, 0, 0, 0>> \o EncString(P_q)
                                 \o EncString(P_za))
             \o DataRecord(100000, 3, <<2, 0, 0, 0>> \o EncString(P_q)
                                      \o <<5, 0, 113>>) }
    \cup { SubSeq(WPILOG \o Channel0 \o DataRecord(0, 0, F64(1)), 1, n) :
             n \in {11, 18, 30, 40, 60, 63} }

Buffers ==
    BadHeaders
    \cup Others
    \cup { LET b == WPILOG \o pre \o Concat(recs)
           IN  SubSeq(b, 1, Len(b) - cut) :
             pre \in Preambles,
             recs \in UNION {[1..k -> Alphabet] : k \in 0..MaxRecords},
             cut \in Cuts }

(***************************************************************************)
(* process_file as a state machine                                         *)
(***************************************************************************)

VARIABLES
    data,           \* the bytes of input_file
    period_ms,      \* the period argument
    pc,             \* where process_file is
    offset,         \* parse_wpilog: offset
    entries,        \* parse_wpilog: entries
    entry_names,    \* metadata.entry_names
    entry_types,    \* metadata.entry_types
    start_time,     \* metadata.start_time: <<>> is None, else <<float>>
    stdout,         \* the lines printed so far
    raised,         \* the exception propagating in process_file: <<>> or <<class>>
    start_datetime, \* process_file: <<>> is "Unknown", else <<start_time>>
    csv,            \* the file written: <<>> or <<[header, csv_data]>>
    stats,          \* what generate_csv returned: <<>> is None, else <<dict>>
    result          \* what process_file returned: <<>> before it returns

vars == <<data, period_ms, pc, offset, entries, entry_names, entry_types,
          start_time, stdout, raised, start_datetime, csv, stats, result>>

Init ==
    /\ data \in Buffers
    /\ period_ms \in Periods
    /\ pc = "call"
    /\ offset = 0
    /\ entries = <<>>
    /\ entry_names = <<>>
    /\ entry_types = <<>>
    /\ start_time = <<>>
    /\ stdout = <<>>
    /\ raised = <<>>
    /\ start_datetime = <<>>
    /\ csv = <<>>
    /\ stats = <<>>
    /\ result = <<>>

\* BadHeader with a slip: a buffer too short to hold the header passes
BadHeader_Long(d) == Len(d) >= 6 /\ SubSeq(d, 1, 6) # WPILOG

\* header != b'WPILOG'
BadHeader(d) == Slice(d, 0, 6) # WPILOG

\* parse_wpilog up to the loop: the header check
CheckHeader ==
    /\ pc = "call"
    /\ IF BadHeader(data)
       THEN /\ raised' = <<"ValueError">>
            /\ pc' = "except"
       ELSE /\ raised' = raised
            /\ pc' = "loop"
    /\ offset' = 6
    /\ UNCHANGED <<data, period_ms, entries, entry_names, entry_types,
                   start_time, stdout, start_datetime, csv, stats, result>>

\* Apply with a slip: an iteration that goes on leaves offset where it was
Apply_Stay(e) ==
    /\ offset' = IF e.how = "next" THEN offset ELSE e.offset
    /\ entry_names' = e.names
    /\ entry_types' = e.types
    /\ start_time' = IF e.start # <<>> THEN e.start ELSE start_time
    /\ entries' = entries \o e.appended
    /\ stdout' = stdout \o e.printed
    /\ pc' = IF e.how = "next" THEN "loop" ELSE "parsed"
    /\ UNCHANGED <<data, period_ms, raised, start_datetime, csv, stats,
                   result>>

\* what one iteration of the record loop does to the state
Apply(e) ==
    /\ offset' = e.offset
    /\ entry_names' = e.names
    /\ entry_types' = e.types
    /\ start_time' = IF e.start # <<>> THEN e.start ELSE start_time
    /\ entries' = entries \o e.appended
    /\ stdout' = stdout \o e.printed
    /\ pc' = IF e.how = "next" THEN "loop" ELSE "parsed"
    /\ UNCHANGED <<data, period_ms, raised, start_datetime, csv, stats,
                   result>>

\* an iteration that reads a control entry
ControlStep ==
    /\ pc = "loop" /\ offset < Len(data) /\ data[offset + 1] = 0
    /\ Apply(Iteration(data, offset, entry_names, entry_types,
                       ControlEntry(data, offset + 9, entry_names,
                                    entry_types, Timestamp(data, offset))))

\* an iteration that reads a metadata entry
MetadataStep ==
    /\ pc = "loop" /\ offset < Len(data) /\ data[offset + 1] = 1
    /\ Apply(Iteration(data, offset, entry_names, entry_types,
                       MetadataEntry(data, offset + 9, entry_names,
                                     entry_types)))

\* an iteration that reads a data entry
DataStep ==
    /\ pc = "loop" /\ offset < Len(data) /\ data[offset + 1] = 2
    /\ Apply(Iteration(data, offset, entry_names, entry_types,
                       DataEntry(data, offset + 9, entry_names, entry_types,
                                 Timestamp(data, offset))))

\* an iteration that reads any other entry type
UnknownStep ==
    /\ pc = "loop" /\ offset < Len(data) /\ data[offset + 1] \notin {0, 1, 2}
    /\ Apply(Iteration(data, offset, entry_names, entry_types,
                       UnknownEntry(offset + 9, entry_names, entry_types,
                                    data[offset + 1])))

\* the while condition fails: return metadata, entries
LoopExit ==
    /\ pc = "loop" /\ offset >= Len(data)
    /\ pc' = "parsed"
    /\ UNCHANGED <<data, period_ms, offset, entries, entry_names,
                   entry_types, start_time, stdout, raised, start_datetime,
                   csv, stats, result>>

\* bool(x) of a float
Truthy(x) == x # FZero

\* process_file: the log start time
StartDatetime ==
    /\ pc = "parsed"
    /\ start_datetime' = IF start_time # <<>> /\ Truthy(start_time[1])
                         THEN start_time ELSE <<>>
    /\ pc' = "generate"
    /\ UNCHANGED <<data, period_ms, offset, entries, entry_names,
                   entry_types, start_time, stdout, raised, csv, stats,
                   result>>

\* stats = generate_csv(entries, output_file, period_ms)
GenerateCsv ==
    /\ pc = "generate"
    /\ IF entries = <<>>
       THEN /\ stdout' = Append(stdout, Line("No entries found", 0, ""))
            /\ csv' = csv
            /\ stats' = <<>>
       ELSE LET g == generate_csv(entries, period_ms)
            IN  /\ stdout' = stdout
                /\ csv' = <<[header |-> g.header, csv_data |-> g.csv_data]>>
                /\ stats' = <<g.stats>>
    /\ pc' = "return"
    /\ UNCHANGED <<data, period_ms, offset, entries, entry_names,
                   entry_types, start_time, raised, start_datetime, result>>

\* return {"success": True, ..., **stats}: ** of None raises TypeError
ReturnSuccess ==
    /\ pc = "return"
    /\ IF stats = <<>>
       THEN /\ raised' = <<"TypeError">>
            /\ result' = result
            /\ pc' = "except"
       ELSE /\ raised' = raised
            /\ result' = <<[success |-> TRUE,
                            log_start_time |-> start_datetime,
                            stats |-> stats[1],
                            error |-> ""]>>
            /\ pc' = "done"
    /\ UNCHANGED <<data, period_ms, offset, entries, entry_names,
                   entry_types, start_time, stdout, start_datetime, csv,
                   stats>>

\* except Exception as e: return {"success": False, ..., "error": str(e)}
ReturnFailure ==
    /\ pc = "except"
    /\ result' = <<[success |-> FALSE, log_start_time |-> <<>>,
                    stats |-> <<>>, error |-> raised[1]]>>
    /\ pc' = "done"
    /\ UNCHANGED <<data, period_ms, offset, entries, entry_names,
                   entry_types, start_time, stdout, raised, start_datetime,
                   csv, stats>>

Next ==
    \/ CheckHeader
    \/ ControlStep
    \/ MetadataStep
    \/ DataStep
    \/ UnknownStep
    \/ LoopExit
    \/ StartDatetime
    \/ GenerateCsv
    \/ ReturnSuccess
    \/ ReturnFailure

Spec == Init /\ [][Next]_vars

\* process_file is one sequential call: the statement it is at is executed.
\* This is weak fairness of Next, written out with "pc # done" in the
\* place of ENABLED <<Next>>_vars: a call that has not returned can take a
\* step, and does not wait for ever.
FairSpec == Spec /\ ([]<>(pc = "done") \/ []<><<Next>>_vars)

(***************************************************************************)
(* What the claims speak of, read off the state and the raw bytes          *)
(***************************************************************************)

\* a line with this text was printed
Printed(text) == \E i \in 1..Len(stdout) : stdout[i].text = text

\* parse_wpilog has returned to process_file
Returned == pc \in {"parsed", "generate", "return", "done"}

\* the loop is about to read the record at offset
AtRecord == pc = "loop" /\ offset < Len(data)

\* the kind byte of the record at offset
KindByte == data[offset + 1]

\* the record at offset is a data record whose two id bytes are present
HasId == KindByte = 2 /\ Len(data) >= offset + 11

\* its entry id
IdBytes == data[offset + 10] + 256 * data[offset + 11]

\* both the name and the type of an id are known
Resolved(id) == id \in DOMAIN entry_names /\ id \in DOMAIN entry_types

\* the timestamp bytes of the record at offset, in seconds
RecordSeconds == FDivNat(SubSeq(data, offset + 2, offset + 9), 1000000)

\* nothing the decoder produces changes in this step
DecoderFrozen ==
    /\ entries' = entries
    /\ entry_names' = entry_names
    /\ entry_types' = entry_types
    /\ start_time' = start_time

(***************************************************************************)
(* C1                                                                      *)
(***************************************************************************)

\* C1: when the record loop meets a data record whose id lacks a resolved
\* name or type, or a record whose kind byte is not 0, 1 or 2, the decode
\* ends in that step: parse_wpilog returns with entries, metadata and
\* start_time as they were and raises nothing; and once parse_wpilog has
\* returned, no record is processed any more.
C1_StopsAtUnresolvedOrUnknown ==
    [][ /\ (AtRecord /\ (KindByte \notin {0, 1, 2}
                         \/ (HasId /\ ~Resolved(IdBytes))))
           => (pc' = "parsed" /\ DecoderFrozen /\ raised' = <<>>)
        /\ Returned => (pc' # "loop" /\ offset' = offset /\ DecoderFrozen)
      ]_vars

\* C1 witness: the decode stopped at an unresolved id or an unknown kind
\* after an event was decoded and with bytes of the buffer left unread, and
\* process_file returned a success.
C1_Witness ==
    /\ pc = "done"
    /\ entries # <<>>
    /\ offset < Len(data)
    /\ Printed("Unknown entry ID") \/ Printed("Unknown entry type")
    /\ result[1].success

(***************************************************************************)
(* C2                                                                      *)
(***************************************************************************)

\* C2: a structural error met in the record loop (reported by the line
\* "Error parsing file at offset") reaches the caller of parse_wpilog as an
\* error: when parse_wpilog has returned after such an error, an exception
\* is propagating.
C2_LoopErrorSurfaced ==
    (pc = "parsed" /\ Printed("Error parsing file at offset"))
        => raised # <<>>

(***************************************************************************)
(* C3                                                                      *)
(***************************************************************************)

\* the (timestamp, value) pairs of a channel, in emission order
PairsOf(es, name) ==
    LET Named(e) == e.name = name
        sel == SelectSeq(es, Named)
    IN  [i \in 1..Len(sel) |-> <<sel[i].timestamp, sel[i].value>>]

\* the cell the rule of C3 selects from a series at grid timestamp t
RuleCell(series, t) ==
    LET B == {i \in 1..Len(series) : FLe(series[i][1], t)}
        A == {i \in 1..Len(series) : FLe(t, series[i][1])}
        before == series[CHOOSE i \in B : \A j \in B : j <= i]
        after  == series[CHOOSE i \in A : \A j \in A : i <= j]
        pick == IF B = {} /\ A = {} THEN <<>>
                ELSE IF B = {} THEN <<after[2]>>
                ELSE IF A = {} THEN <<before[2]>>
                ELSE IF FLe(FSub(t, before[1]), FSub(after[1], t))
                     THEN <<before[2]>>
                ELSE <<after[2]>>
    IN  IF pick # <<>> /\ pick[1].list
        THEN <<[pick[1] EXCEPT !.py = "str", !.list = FALSE]>>
        ELSE pick

\* C3: every cell of the table written is the one the rule selects: before
\* is the last pair of the channel's series with timestamp <= t, after the
\* earliest pair with timestamp >= t, the nearer of the two is taken and a
\* tie goes to before.
C3_CellRule ==
    csv # <<>> =>
        \A k \in 1..Len(csv[1].csv_data) :
            \A j \in 1..Len(csv[1].header) :
                csv[1].csv_data[k][j + 1]
                    = RuleCell(PairsOf(entries, csv[1].header[j]),
                               csv[1].csv_data[k][1])

(***************************************************************************)
(* C4                                                                      *)
(***************************************************************************)

\* the record at offset is a data record of a channel of type string whose
\* payload is cut short: the length prefix or some of the declared bytes
\* are missing
TruncatedString ==
    /\ HasId /\ Resolved(IdBytes) /\ entry_types[IdBytes] = S_string
    /\ \/ Len(data) < offset + 13
       \/ Len(data) < offset + 13 + data[offset + 12] + 256 * data[offset + 13]

\* C4: read_string fails when fewer bytes remain than the prefix declares,
\* so a data record of type string whose payload is truncated appends no
\* event.
C4_TruncatedStringNoEvent ==
    [][ (AtRecord /\ TruncatedString) => entries' = entries ]_vars

(***************************************************************************)
(* C5                                                                      *)
(***************************************************************************)

RECURSIVE MulFrom(_, _, _, _)
\* limbs i.. of x * m for a small m, given the carry into limb i
MulFrom(x, m, i, carry) ==
    IF i > Len(x) THEN <<>>
    ELSE LET v == x[i] * m + carry
         IN  <<v % 256>> \o MulFrom(x, m, i + 1, v \div 256)

\* the whole number of microseconds nearest to a float of seconds
MicrosOf(t) ==
    LET us == MulFrom(t, 1000000, 1, 0)
        up == IF us[FracLimbs] >= 128 THEN 1 ELSE 0
    IN  us[FracLimbs + 1] + 256 * us[FracLimbs + 2]
        + 65536 * us[FracLimbs + 3] + 16777216 * us[FracLimbs + 4] + up

\* C5: the grid is start, start + period, ... while <= end, with start and
\* end the least and greatest timestamp of all events: the first row is at
\* start, row k is k - 1 periods after it (to the microsecond), every row
\* lies in [start, end], the number of rows, which is the count reported,
\* is floor((end - start) / period) + 1, and a grid point landing on end is
\* the last row.
C5_Grid ==
    csv # <<>> =>
        LET rows == csv[1].csv_data
            st   == stats[1]
            s    == MicrosOf(st.start_time)
            e    == MicrosOf(st.end_time)
            p    == period_ms * 1000
        IN  /\ \A i \in 1..Len(entries) :
                   /\ FLe(st.start_time, entries[i].timestamp)
                   /\ FLe(entries[i].timestamp, st.end_time)
            /\ \E i \in 1..Len(entries) : entries[i].timestamp = st.start_time
            /\ \E i \in 1..Len(entries) : entries[i].timestamp = st.end_time
            /\ st.rows = Len(rows)
            /\ Len(rows) = ((e - s) \div p) + 1
            /\ rows[1][1] = st.start_time
            /\ \A k \in 1..Len(rows) :
                   /\ MicrosOf(rows[k][1]) = s + (k - 1) * p
                   /\ FLe(st.start_time, rows[k][1])
                   /\ FLe(rows[k][1], st.end_time)
            /\ ((e - s) % p = 0 => MicrosOf(rows[Len(rows)][1]) = e)

(***************************************************************************)
(* C6                                                                      *)
(***************************************************************************)

\* the record at offset is a metadata record whose two strings are whole
\* and ASCII: its key and its payload as the bytes give them
KeyLen == data[offset + 10] + 256 * data[offset + 11]
KeyBytes == SubSeq(data, offset + 12, offset + 11 + KeyLen)
PayloadLen == data[offset + 12 + KeyLen] + 256 * data[offset + 13 + KeyLen]
PayloadBytes ==
    SubSeq(data, offset + 14 + KeyLen, offset + 13 + KeyLen + PayloadLen)
WholeMetadata ==
    /\ AtRecord /\ KindByte = 1
    /\ Len(data) >= offset + 11
    /\ Len(data) >= offset + 13 + KeyLen
    /\ Len(data) >= offset + 13 + KeyLen + PayloadLen
    /\ \A i \in 1..KeyLen : KeyBytes[i] < 128
    /\ \A i \in 1..PayloadLen : PayloadBytes[i] < 128

\* a payload "id;rest" with a decimal id: a ';' preceded by digits only
SemiAt(s, k) ==
    /\ k \in 2..Len(s) /\ s[k] = 59
    /\ \A i \in 1..(k - 1) : s[i] >= 48 /\ s[i] <= 57

RECURSIVE Decimal(_)
Decimal(s) ==
    IF s = <<>> THEN 0
    ELSE 10 * Decimal(SubSeq(s, 1, Len(s) - 1)) + (s[Len(s)] - 48)

\* d is c with key id set to v and nothing else changed
SetOnly(d, c, id, v) ==
    /\ DOMAIN d = DOMAIN c \cup {id}
    /\ d[id] = v
    /\ \A k \in DOMAIN c \ {id} : d[k] = c[k]

\* C6: a metadata record 'id;rest' with key "entry" sets the name of id to
\* rest and changes no type and no other name; with key "type" it sets the
\* type of id and changes no name and no other type; with any other key it
\* changes nothing and the loop goes on, whatever the payload.  No other
\* step changes the table, and no step removes an id from it.
C6_MetadataTable ==
    [][ /\ WholeMetadata =>
            \A k \in 1..PayloadLen :
                LET id   == Decimal(SubSeq(PayloadBytes, 1, k - 1))
                    rest == SubSeq(PayloadBytes, k + 1, PayloadLen)
                IN  /\ (KeyBytes = S_entry /\ SemiAt(PayloadBytes, k)) =>
                        /\ SetOnly(entry_names', entry_names, id, rest)
                        /\ entry_types' = entry_types
                        /\ pc' = "loop"
                    /\ (KeyBytes = S_type /\ SemiAt(PayloadBytes, k)) =>
                        /\ SetOnly(entry_types', entry_types, id, rest)
                        /\ entry_names' = entry_names
                        /\ pc' = "loop"
        /\ (WholeMetadata /\ KeyBytes \notin {S_entry, S_type}) =>
                /\ entry_names' = entry_names
                /\ entry_types' = entry_types
                /\ pc' = "loop"
        /\ ~(AtRecord /\ KindByte = 1) =>
                (entry_names' = entry_names /\ entry_types' = entry_types)
        /\ DOMAIN entry_names \subseteq DOMAIN entry_names'
        /\ DOMAIN entry_types \subseteq DOMAIN entry_types'
      ]_vars

\* C6 witness: the name of id 0 was set to "a" and then overwritten by "b",
\* its type, set in between, is still "double", and a record with another
\* key was read without stopping the decode.
C6_Witness ==
    /\ pc = "done"
    /\ entry_names = (0 :> <<98>>)
    /\ entry_types = (0 :> S_double)
    /\ offset = Len(data)
    /\ Len(data) > 80
    /\ ~Printed("Error parsing file at offset")

(***************************************************************************)
(* C7                                                                      *)
(***************************************************************************)

\* C7: entries only grows, by one event appended per step; a step appends
\* exactly when it reads a data record whose id is resolved and the loop
\* goes on after it, and the event carries that record's timestamp and the
\* name resolved for the id at that moment; control and metadata records
\* append nothing.
C7_EventsInStreamOrder ==
    [][ /\ \/ entries' = entries
           \/ /\ AtRecord /\ HasId /\ Resolved(IdBytes)
              /\ Len(entries') = Len(entries) + 1
              /\ SubSeq(entries', 1, Len(entries)) = entries
              /\ entries'[Len(entries')].timestamp = RecordSeconds
              /\ entries'[Len(entries')].name = entry_names[IdBytes]
        /\ (AtRecord /\ HasId /\ Resolved(IdBytes) /\ pc' = "loop")
               => Len(entries') = Len(entries) + 1
        /\ (AtRecord /\ KindByte \in {0, 1}) => entries' = entries
      ]_vars

\* C7 witness: two events of two channels were decoded, in the order of
\* their records, not of their timestamps.
C7_Witness ==
    /\ pc = "done"
    /\ Len(entries) = 2
    /\ entries[1].name = <<98>> /\ entries[2].name = <<97>>
    /\ BigLess(entries[2].timestamp, entries[1].timestamp)

(***************************************************************************)
(* C8                                                                      *)
(***************************************************************************)

\* the first six bytes are not 'WPILOG', or there are fewer than six
NoMagic ==
    \/ Len(data) < 6
    \/ SubSeq(data, 1, 6) # <<87, 80, 73, 76, 79, 71>>

\* C8: on a buffer that does not start with the magic string, parse_wpilog
\* raises before the loop: no record is read, no event, no metadata entry
\* and no start time is ever set, nothing is printed, the exception reaches
\* process_file, which reports the failure.
C8_InvalidHeaderRaised ==
    NoMagic =>
        /\ pc \in {"call", "except", "done"}
        /\ entries = <<>> /\ entry_names = <<>> /\ entry_types = <<>>
        /\ start_time = <<>> /\ stdout = <<>> /\ csv = <<>>
        /\ pc # "call" => raised = <<"ValueError">>
        /\ pc = "done" =>
               (~result[1].success /\ result[1].error = "ValueError")

\* C8 witness: process_file has returned the failure for a buffer shorter
\* than the magic string.
C8_Witness ==
    /\ pc = "done"
    /\ Len(data) = 5
    /\ ~result[1].success

(***************************************************************************)
(* C9                                                                      *)
(***************************************************************************)

\* C9: when generate_csv is given no entries (it prints "No entries found"
\* and writes no table), no exception follows: process_file reports the
\* outcome without going through its except clause.
C9_NoDataIsNoException ==
    Printed("No entries found") => (raised = <<>> /\ pc # "except")

(***************************************************************************)
(* C10                                                                     *)
(***************************************************************************)

\* a series is non-decreasing in timestamp
NonDecreasing(series) ==
    \A i \in 1..Len(series) : \A j \in i..Len(series) :
        FLe(series[i][1], series[j][1])

\* generate_csv has run on entries
Generated == pc \in {"return", "done"} \/ (pc = "except" /\ ~NoMagic)

\* C10 as claimed: every channel series generate_csv builds is
\* non-decreasing in timestamp.
C10_SeriesNonDecreasing ==
    Generated =>
        \A name \in DOMAIN entries_by_name(entries) :
            NonDecreasing(entries_by_name(entries)[name])

\* C10 amended: every channel series generate_csv builds is the channel's
\* (timestamp, value) pairs in emission order, one series per name that
\* occurs; so it is non-decreasing exactly when the events of the channel
\* were decoded with non-decreasing timestamps.
C10_SeriesInEmissionOrder ==
    Generated =>
        LET by_name == entries_by_name(entries)
        IN  /\ DOMAIN by_name = {entries[i].name : i \in 1..Len(entries)}
            /\ \A name \in DOMAIN by_name :
                   /\ by_name[name] = PairsOf(entries, name)
                   /\ NonDecreasing(by_name[name])
                      <=> \A i \in 1..Len(entries) :
                              \A j \in i..Len(entries) :
                                  (entries[i].name = name
                                   /\ entries[j].name = name)
                                  => FLe(entries[i].timestamp,
                                         entries[j].timestamp)

\* C10 witness: a channel whose series of two pairs decreases in timestamp
\* went through generate_csv.
C10_Witness ==
    /\ pc = "done"
    /\ \E name \in DOMAIN entries_by_name(entries) :
           /\ Len(entries_by_name(entries)[name]) = 2
           /\ ~NonDecreasing(entries_by_name(entries)[name])

(***************************************************************************)
(* C11                                                                     *)
(***************************************************************************)

\* C11: once process_file has computed the log start time, it is "Unknown"
\* only when metadata.start_time is absent: a decode that processed a Start
\* control record, whatever its timestamp (0 included), is reported with
\* that record's time.
C11_UnknownOnlyWhenAbsent ==
    pc \in {"generate", "return", "done"}
        => (start_datetime = <<>> => start_time = <<>>)

(***************************************************************************)
(* C12                                                                     *)
(***************************************************************************)

\* |a - b| of two floats, exactly
Dist(a, b) == IF BigLess(a, b) THEN BigSub(b, a) ELSE BigSub(a, b)

\* a value as a cell shows it: a list is written as its str
Shown(value) ==
    IF value.list THEN [value EXCEPT !.py = "str", !.list = FALSE] ELSE value

\* the cell holds the value of a pair of the series nearest to t
Nearest(cell, series, t) ==
    /\ cell # <<>>
    /\ \E i \in 1..Len(series) :
           /\ cell[1] = Shown(series[i][2])
           /\ \A j \in 1..Len(series) :
                  ~BigLess(Dist(series[j][1], t), Dist(series[i][1], t))

\* C12: every cell of the table written is a nearest-neighbour value: for
\* each grid timestamp t and each channel of the header (a channel with at
\* least one event) the cell is not empty and holds the value of a pair of
\* the channel at minimal absolute distance from t.
C12_NearestNeighbour ==
    csv # <<>> =>
        \A k \in 1..Len(csv[1].csv_data) :
            \A j \in 1..Len(csv[1].header) :
                Nearest(csv[1].csv_data[k][j + 1],
                        PairsOf(entries, csv[1].header[j]),
                        csv[1].csv_data[k][1])

(***************************************************************************)
(* C13                                                                     *)
(***************************************************************************)

\* the record at offset is a control record whose subtype byte is present
HasSubtype == AtRecord /\ KindByte = 0 /\ Len(data) >= offset + 10

\* its subtype
SubtypeByte == data[offset + 10]

\* C13: an iteration that reads a control record whose subtype is not 0
\* (Finish, or any other value) leaves entries, entry_names, entry_types and
\* start_time as they were, moves offset past the 10 bytes of the record,
\* raises nothing and stays in the record loop.
C13_OtherControlChangesNothing ==
    [][ (HasSubtype /\ SubtypeByte # 0)
           => /\ DecoderFrozen
              /\ offset' = offset + 10
              /\ pc' = "loop"
              /\ raised' = raised
      ]_vars

\* C13 witness: the last record of the buffer, a control record of subtype 1,
\* was read after a Start record at 0.1 s, whose time is still the start
\* time, and the loop is about to test its condition again.
C13_Witness ==
    /\ pc = "loop"
    /\ offset = Len(data)
    /\ Len(data) >= 26
    /\ data[Len(data) - 9] = 0
    /\ data[Len(data)] = 1
    /\ start_time = <<Seconds(I64(100000))>>

(***************************************************************************)
(* C14                                                                     *)
(***************************************************************************)

\* C14: the record loop terminates. A step taken in the loop either leaves
\* the loop or leaves offset strictly greater than it was; with offset at or
\* past the length of the buffer the step taken leaves the loop; and a call
\* that has entered the loop eventually returns from parse_wpilog.
C14_LoopTerminates ==
    /\ [][ pc = "loop"
             => /\ pc' = "loop" => offset' > offset
                /\ offset >= Len(data) => pc' = "parsed"
         ]_vars
    /\ (pc = "loop") ~> (pc = "parsed")

\* C14 witness: the loop ended on its while condition, with no error and no
\* break, after an iteration that appended an event and left offset past
\* the end of the buffer.
C14_Witness ==
    /\ pc = "parsed"
    /\ offset > Len(data)
    /\ entries # <<>>
    /\ stdout = <<>>

====
